---- MODULE Spec2Model ----
(***************************************************************************)
(* The OS.js server Virtual Filesystem (class Filesystem), its built-in    *)
(* system adapter, the watch/broadcast path, the MIME lookup and the login *)
(* of AuthServiceProvider, as a state machine.                             *)
(*                                                                         *)
(* An optional JavaScript value (a property that may be undefined) is a    *)
(* sequence of length 0 or 1: <<>> is undefined, <<v>> is the value v.     *)
(* An object is identified by its reference `ref` (indexOf and === compare *)
(* references); a mountpoint object is never mutated after mount() built   *)
(* it.                                                                     *)
(***************************************************************************)
EXTENDS Naturals, Sequences, FiniteSets, TLC

\* Bounds of the model.
MaxMounts == 2      \* mountpoint objects ever created by mount()
MaxHandles == 2     \* watch handles ever returned by an adapter's watch()
MaxClose == 2       \* close() invocations, over all handles

VARIABLES
  options,      \* this.options: the adapter factories the caller configured
  config,       \* core.config(): vfs.watch and vfs.mountpoints
  mountpoints,  \* this.mountpoints: references of the mounted objects, in order
  adapters,     \* this.adapters: name -> adapter instance
  watches,      \* this.watches: {id, watch} subscriptions
  methods,      \* this.methods: names of the VFS method table
  objs,         \* every mountpoint object mount() has created; index = ref
  handles,      \* every handle an adapter's watch() has returned
  last          \* the last call: its arguments, outcome and external effects

vars == <<options, config, mountpoints, adapters, watches, methods, objs, handles, last>>

----------------------------------------------------------------------------
(* Adapters *)

\* require('./adapters/vfs/system')(core): the built-in adapter has the nine
\* file operations and no watch function.
systemAdapter == [watch |-> FALSE, closable |-> FALSE]

\* Caller-supplied adapter instances, as their factories build them: `watch`
\* says whether the instance has a watch function, `closable` whether the
\* handle its watch() returns has a close function.
watcherAdapter == [watch |-> TRUE, closable |-> TRUE]
plainAdapter == [watch |-> TRUE, closable |-> FALSE]

\* A factory that throws when it is called.
brokenFactory == [throws |-> "FactoryError"]

\* The adapter factories of this.options.adapters, as the instances they build.
OptionChoices ==
  { [adapters |-> [n \in {"watcher", "plain"} |->
                     IF n = "watcher" THEN watcherAdapter ELSE plainAdapter]] }

----------------------------------------------------------------------------
(* Mountpoint descriptors and objects *)

Names == {"home", "tmp"}
NoAttributes == [watch |-> <<>>, root |-> <<>>]
Watchable == [watch |-> <<>>, root |-> <<"/data">>]
Unwatched == [watch |-> <<FALSE>>, root |-> <<"/data">>]

\* A descriptor {name, adapter?, attributes?} a caller writes by hand.
descriptor(name, adapter, attributes) ==
  [id |-> <<>>, name |-> name, root |-> <<>>, adapter |-> adapter,
   attributes |-> attributes]

Descriptors ==
  { descriptor("home", <<>>, <<>>),                    \* all defaults
    descriptor("home", <<>>, <<Watchable>>),           \* the system adapter
    descriptor("home", <<"watcher">>, <<Watchable>>),
    descriptor("tmp", <<"watcher">>, <<Watchable>>),
    descriptor("home", <<"watcher">>, <<Unwatched>>),  \* attributes.watch: false
    descriptor("home", <<"plain">>, <<Watchable>>),    \* handle without close
    descriptor("home", <<"ghost">>, <<Watchable>>) }   \* adapter not registered

\* Descriptors that differ in their name alone.
NamedDescriptors == {descriptor(n, <<>>, <<>>) : n \in Names}

\* Descriptors eligible for a watch.
WatchedDescriptors ==
  { descriptor("home", <<"watcher">>, <<Watchable>>),
    descriptor("tmp", <<"watcher">>, <<Watchable>>),
    descriptor("home", <<"plain">>, <<Watchable>>) }

\* A mountpoint object passed to mount() as a descriptor carries all its fields.
asDescriptor(mp) ==
  [id |-> <<mp.id>>, name |-> mp.name, root |-> <<mp.root>>,
   adapter |-> mp.adapter, attributes |-> <<mp.attributes>>]

ConfigChoices ==
  { [vfsWatch |-> TRUE, mountpoints |-> <<>>],
    [vfsWatch |-> FALSE,
     mountpoints |-> <<descriptor("home", <<"watcher">>, <<Watchable>>)>>] }

----------------------------------------------------------------------------
(* The Filesystem instance as a value, with the effects of the call in     *)
(* progress: the handles close() was invoked on, the mountpoints the       *)
(* adapter's watch() was invoked with, the broadcasts emitted, the method  *)
(* invocations, the adapter factories called, the return value and whether *)
(* the call threw.                                                         *)

This ==
  [mountpoints |-> mountpoints, adapters |-> adapters, watches |-> watches,
   methods |-> methods, objs |-> objs, handles |-> handles,
   closed |-> <<>>, watched |-> <<>>, emitted |-> <<>>, invoked |-> <<>>,
   factories |-> <<>>, fs |-> <<>>, ret |-> <<>>, thrown |-> FALSE]

\* uuid(): a value no earlier call returned. mount() calls it once per call.
uuid(fs) == Len(fs.objs) + 1

\* Array.prototype.indexOf: the first index holding x, 0 for -1.
indexOf(seq, x) ==
  IF \E i \in 1..Len(seq) : seq[i] = x
  THEN CHOOSE i \in 1..Len(seq) : seq[i] = x /\ \A j \in 1..(i - 1) : seq[j] # x
  ELSE 0

\* Array.prototype.splice(index, 1)
splice(seq, index) ==
  [i \in 1..(Len(seq) - 1) |-> IF i < index THEN seq[i] ELSE seq[i + 1]]

\* this.watches.find(w => w.id === id): the index of the first match, 0 for none.
findWatch(ws, id) ==
  IF \E i \in 1..Len(ws) : ws[i].id = id
  THEN CHOOSE i \in 1..Len(ws) : ws[i].id = id /\ \A j \in 1..(i - 1) : ws[j].id # id
  ELSE 0

\* Filesystem._watch: ask the adapter to watch, record the subscription.
watchInternal(fs, mp, adapter) ==
  LET h == Len(fs.handles) + 1
  IN  [fs EXCEPT
         !.handles = Append(@, [mp |-> mp.ref, close |-> adapter.closable, closed |-> 0]),
         !.watched = Append(@, mp.ref),
         !.watches = Append(@, [id |-> mp.id, watch |-> h])]

\* Filesystem.watch without its test of mountpoint.attributes.watch.
watchIgnoringFlag(fs, mp) ==
  IF \/ config.vfsWatch = FALSE
     \/ mp.attributes.root = <<>>
  THEN fs
  ELSE LET name == IF mp.adapter # <<>> THEN mp.adapter[1] ELSE "system"
       IN  IF name \notin DOMAIN fs.adapters
           THEN [fs EXCEPT !.thrown = TRUE]
           ELSE IF fs.adapters[name].watch
                THEN watchInternal(fs, mp, fs.adapters[name])
                ELSE fs

\* Filesystem.watch
watch(fs, mp) ==
  IF \/ mp.attributes.watch = <<FALSE>>
     \/ config.vfsWatch = FALSE
     \/ mp.attributes.root = <<>>
  THEN fs
  ELSE LET name == IF mp.adapter # <<>> THEN mp.adapter[1] ELSE "system"
       IN  IF name \notin DOMAIN fs.adapters
           THEN [fs EXCEPT !.thrown = TRUE]    \* typeof undefined.watch: TypeError
           ELSE IF fs.adapters[name].watch
                THEN watchInternal(fs, mp, fs.adapters[name])
                ELSE fs

\* Object.assign({id: uuid(), root: `${mount.name}:/`, attributes: {}}, mount)
assignDefaults(d, ref, id) ==
  [ref |-> ref,
   id |-> IF d.id = <<>> THEN id ELSE d.id[1],
   name |-> d.name,
   root |-> IF d.root = <<>> THEN d.name \o ":/" ELSE d.root[1],
   adapter |-> d.adapter,
   attributes |-> IF d.attributes = <<>> THEN NoAttributes ELSE d.attributes[1]]

\* Filesystem.mount with unshift in place of push.
mountAtFront(fs, d) ==
  LET mp == assignDefaults(d, Len(fs.objs) + 1, uuid(fs))
      pushed == [fs EXCEPT !.objs = Append(@, mp),
                           !.mountpoints = <<mp.ref>> \o @]
      watching == watch(pushed, mp)
  IN  IF watching.thrown THEN watching ELSE [watching EXCEPT !.ret = <<mp.ref>>]

\* Filesystem.mount
mount(fs, d) ==
  LET mp == assignDefaults(d, Len(fs.objs) + 1, uuid(fs))
      pushed == [fs EXCEPT !.objs = Append(@, mp),
                           !.mountpoints = Append(@, mp.ref)]
      watching == watch(pushed, mp)
  IN  IF watching.thrown THEN watching ELSE [watching EXCEPT !.ret = <<mp.ref>>]

\* found.watch.close(): a handle without a close function makes the call throw.
closeFound(fs, found) ==
  IF found = 0 THEN fs
  ELSE LET h == fs.watches[found].watch
       IN  IF fs.handles[h].close
           THEN [fs EXCEPT !.handles[h].closed = @ + 1, !.closed = Append(@, h)]
           ELSE [fs EXCEPT !.thrown = TRUE]

\* Filesystem.unmount
unmount(fs, x) ==
  LET closing == closeFound(fs, findWatch(fs.watches, x.id))
      index == indexOf(closing.mountpoints, x.ref)
  IN  IF closing.thrown THEN closing
      ELSE IF index # 0
           THEN [closing EXCEPT !.mountpoints = splice(@, index), !.ret = <<TRUE>>]
           ELSE [closing EXCEPT !.ret = <<FALSE>>]

\* this.watches.forEach(({watch}) => { if (typeof watch.close === 'function') watch.close() })
RECURSIVE closeAll(_, _)
closeAll(fs, i) ==
  IF i > Len(fs.watches) THEN fs
  ELSE LET h == fs.watches[i].watch
       IN  closeAll(IF fs.handles[h].close
                    THEN [fs EXCEPT !.handles[h].closed = @ + 1, !.closed = Append(@, h)]
                    ELSE fs,
                    i + 1)

\* Filesystem.destroy without its reset of this.watches.
destroyKeepingWatches(fs) == closeAll(fs, 1)

\* Filesystem.destroy
destroy(fs) == [closeAll(fs, 1) EXCEPT !.watches = <<>>]

----------------------------------------------------------------------------
(* Startup *)

\* The method table vfs(core) builds, one entry per VFS operation.
MethodNames ==
  {"exists", "stat", "readdir", "readfile", "mkdir", "writefile", "rename",
   "copy", "unlink", "realpath"}

\* Object.keys(adapters): 'system', the first key of the merged object, then
\* the caller's other names in the order the options object lists them.
KeyOrder == <<"system", "watcher", "plain", "broken">>
adapterKeys(opts) ==
  SelectSeq(KeyOrder, LAMBDA n : n = "system" \/ n \in DOMAIN opts.adapters)

\* adapters[iter](this.core) throws.
factoryThrows(opts, n) ==
  n \in DOMAIN opts.adapters /\ "throws" \in DOMAIN opts.adapters[n]

\* The reduce over the keys: each factory is called with the core, up to the
\* first one that throws.
invokeFactories(opts) ==
  LET keys == adapterKeys(opts)
      bad == {i \in 1..Len(keys) : factoryThrows(opts, keys[i])}
      stop == IF bad = {} THEN Len(keys)
              ELSE CHOOSE i \in bad : \A j \in bad : i <= j
  IN  [called |-> [i \in 1..stop |->
                     [name |-> keys[i],
                      by |-> IF keys[i] \in DOMAIN opts.adapters THEN "caller"
                             ELSE "built-in",
                      arg |-> "core",
                      out |-> IF factoryThrows(opts, keys[i])
                              THEN opts.adapters[keys[i]].throws ELSE "adapter"]],
       thrown |-> bad # {}]

\* The merge with the built-in system adapter taking precedence over the
\* caller's.
buildAdaptersBuiltinWins(opts) ==
  [n \in {"system"} \cup DOMAIN opts.adapters |->
     IF n = "system" THEN systemAdapter ELSE opts.adapters[n]]

\* Object.assign({system: systemAdapter}, this.options.adapters), each factory
\* applied to the core.
buildAdapters(opts) ==
  [n \in {"system"} \cup DOMAIN opts.adapters |->
     IF n \in DOMAIN opts.adapters THEN opts.adapters[n] ELSE systemAdapter]

\* this.core.config('vfs.mountpoints').forEach(mount => this.mount(mount)):
\* a mount that throws ends the loop.
RECURSIVE mountAll(_, _, _)
mountAll(fs, ds, i) ==
  IF i > Len(ds) \/ fs.thrown THEN fs
  ELSE mountAll(mount(fs, ds[i]), ds, i + 1)

\* Filesystem.init: a factory that throws ends the call before this.adapters
\* is assigned.
init(fs) ==
  LET made == invokeFactories(options)
      called == [fs EXCEPT !.factories = made.called]
      built == [called EXCEPT !.adapters = buildAdapters(options),
                              !.methods = MethodNames]
      mounted == mountAll(built, config.mountpoints, 1)
  IN  IF made.thrown THEN [called EXCEPT !.thrown = TRUE]
      ELSE IF mounted.thrown THEN mounted ELSE [mounted EXCEPT !.ret = <<TRUE>>]

----------------------------------------------------------------------------
(* Requests *)

Users == {"alice", "bob"}
\* A virtual path "<name>:/<rel>" as its two parts.
Paths == {[name |-> "home", rel |-> "notes.txt"], [name |-> "nomount", rel |-> "x"]}
\* A request of the HTTP layer: the session and the fields carry more than
\* the user and the path.
Requests ==
  [session : [user : Users, username : {"web"}],
   fields : [path : Paths, encoding : {"utf8"}]]

\* The realpath VFS method: the first mountpoint, in mount order, whose name
\* is the path's namespace; none is a PathResolutionError.
realpathMethod(fs, req) ==
  LET path == req.fields.path
      hits == {i \in 1..Len(fs.mountpoints) : fs.objs[fs.mountpoints[i]].name = path.name}
  IN  IF hits = {} THEN [error |-> "PathResolutionError"]
      ELSE LET first == CHOOSE i \in hits : \A j \in hits : i <= j
           IN  [mountpoint |-> fs.mountpoints[first],
                user |-> req.session.user,
                rel |-> path.rel]

\* The properties every plain object inherits from Object.prototype: all of
\* them functions.
ObjectPrototype == {"constructor", "toString", "valueOf", "hasOwnProperty"}

\* this.methods[name](req, res): the invocation and its result.  The table is
\* a plain object: a name it does not hold may be an inherited function,
\* which is then called and returns.
invoke(fs, name, req, res) ==
  IF name \in fs.methods
  THEN [fs EXCEPT !.invoked = Append(@, [method |-> name, req |-> req, res |-> res]),
                  !.ret = <<IF name = "realpath" THEN realpathMethod(fs, req)
                            ELSE [done |-> name]>>]
  ELSE IF name \in ObjectPrototype
       THEN [fs EXCEPT !.ret = <<[inherited |-> name]>>]
       ELSE [fs EXCEPT !.thrown = TRUE]     \* this.methods[name] is not a function

\* Filesystem.request
request(fs, name, req, res) == invoke(fs, name, req, <<res>>)

\* Filesystem.realpath with a session that lacks the user.
realpathAnonymous(fs, filename, user) ==
  invoke(fs, "realpath",
         [session |-> [user |-> ""], fields |-> [path |-> filename]], <<>>)

\* Filesystem.realpath
realpath(fs, filename, user) ==
  invoke(fs, "realpath",
         [session |-> [user |-> user], fields |-> [path |-> filename]], <<>>)

----------------------------------------------------------------------------
(* Watch callbacks and broadcasts *)

\* The connected sessions' attributes (ws._osjs_client).
Sessions ==
  { [user |-> "alice", group |-> "admin"],
    [user |-> "bob", group |-> "admin"],
    [user |-> "alice"] }

\* The filter arguments an adapter passes to the callback.
FilterArgs ==
  { <<>>, [user |-> "alice"], [user |-> "alice", group |-> "admin"] }
Dirs == {"docs"}

\* ws._osjs_client[k] === args[k]; a missing attribute is undefined.
attributeIs(ws, k, v) == k \in DOMAIN ws /\ ws[k] = v

\* The filter with keys.some in place of keys.every.
filterSome(args, ws) ==
  LET keys == DOMAIN args
  IN  IF Cardinality(keys) = 0 THEN TRUE
      ELSE \E k \in keys : attributeIs(ws, k, args[k])

\* keys.length === 0 ? () => true : ws => keys.every(k => ws._osjs_client[k] === args[k])
filter(args, ws) ==
  LET keys == DOMAIN args
  IN  IF Cardinality(keys) = 0 THEN TRUE
      ELSE \A k \in keys : attributeIs(ws, k, args[k])

\* core.broadcast(name, params, filter): the event with the sessions it reaches.
broadcast(name, params, args) ==
  [name |-> name, params |-> params, to |-> {ws \in Sessions : filter(args, ws)}]

\* The callback _watch hands to adapter.watch, for the mountpoint it closes over.
onChange(fs, mp, args, dir) ==
  LET target == mp.name \o ":/" \o dir
  IN  [fs EXCEPT !.emitted =
         Append(@, broadcast("osjs/vfs:watch:change", <<[path |-> target], args>>, args))]

----------------------------------------------------------------------------
(* The system adapter (adapters/vfs/system).  A promise is a record: `s`   *)
(* is "fulfilled" or "rejected", `v` the value or the error, `fs` the      *)
(* calls that reached the backend filesystem while it settled.  Values and *)
(* errors are strings; a callback is a function of the value it is given.  *)

\* The values and errors a promise of the adapter settles with.
Values ==
  {"/real", "/real/entry", "ok", "file", "dir", "iter", "list", "stream",
   "true", "false", "ENOENT", "EACCES", "EIO", "ERR_INVALID_ARG_TYPE",
   "PathResolutionError"}

\* What vfs.resolve(file) does: return a path, throw, or return a promise.
ResolveOutcomes ==
  { [how |-> "returns", s |-> "fulfilled", v |-> "/real"],
    [how |-> "throws", s |-> "rejected", v |-> "PathResolutionError"],
    [how |-> "promise", s |-> "fulfilled", v |-> "/real"],
    [how |-> "promise", s |-> "rejected", v |-> "PathResolutionError"] }

\* Resolution of the virtual path fails.
resolutionFails(r) == r.how = "throws" \/ r.s = "rejected"

fulfilled(v) == [s |-> "fulfilled", v |-> v, fs |-> <<>>]
rejected(e) == [s |-> "rejected", v |-> e, fs |-> <<>>]

\* Promise.resolve(x): a promise is adopted, a value fulfils.
promiseResolve(r) == [s |-> r.s, v |-> r.v, fs |-> <<>>]

\* p.then(F)
then(p, F) ==
  IF p.s = "fulfilled"
  THEN LET n == F[p.v] IN [n EXCEPT !.fs = p.fs \o n.fs]
  ELSE p

\* p.catch(F)
catch(p, F) ==
  IF p.s = "rejected"
  THEN LET n == F[p.v] IN [n EXCEPT !.fs = p.fs \o n.fs]
  ELSE p

\* A call of fs-extra with a path: `out` is "ok" (or what it yields), or the
\* error code it rejects with.
Errors == {"ENOENT", "EACCES"}
fsCall(fn, path, out) ==
  [s |-> IF out \in Errors THEN "rejected" ELSE "fulfilled", v |-> out,
   fs |-> <<[fn |-> fn, path |-> path]>>]

\* A call of fs-extra with a promise for a path: the argument check rejects
\* it before the filesystem is reached.
fsCallInvalid == rejected("ERR_INVALID_ARG_TYPE")

\* What a function that returns a promise hands its caller; a synchronous
\* throw of vfs.resolve leaves the function as an exception.
returns(p) == [thrown |-> FALSE, s |-> p.s, v |-> p.v, fs |-> p.fs]
throws(e) == [thrown |-> TRUE, s |-> "none", v |-> e, fs |-> <<>>]

\* createFileIter: fs.stat(realPath).then(stat => ({...}))
createFileIter(realPath, statOut) ==
  then(fsCall("stat", realPath, statOut), [st \in Values |-> fulfilled("iter")])

\* exists
exists(r, accessOut) ==
  IF r.how = "throws" THEN throws(r.v)
  ELSE returns(
    then(catch(then(promiseResolve(r),
                    [realPath \in Values |-> fsCall("access", realPath, accessOut)]),
               [e \in Values |-> fulfilled("false")]),
         [x \in Values |-> fulfilled("true")]))

\* stat
stat(r, statOut) ==
  IF r.how = "throws" THEN throws(r.v)
  ELSE returns(then(promiseResolve(r),
                    [realPath \in Values |-> createFileIter(realPath, statOut)]))

\* readdir, of a directory holding one entry
readdir(r, readdirOut, statOut) ==
  IF r.how = "throws" THEN throws(r.v)
  ELSE returns(
    then(then(promiseResolve(r),
              [realPath \in Values |-> fsCall("readdir", realPath, readdirOut)]),
         [files \in Values |->
            then(createFileIter("/real/entry", statOut),
                 [iter \in Values |-> fulfilled("list")])]))

\* readfile
readfile(r, statOut) ==
  IF r.how = "throws" THEN throws(r.v)
  ELSE returns(
    then(then(promiseResolve(r),
              [realPath \in Values |-> fsCall("stat", realPath, statOut)]),
         [st \in Values |->
            IF st = "file"
            THEN [s |-> "fulfilled", v |-> "stream",
                  fs |-> <<[fn |-> "createReadStream", path |-> "/real"]>>]
            ELSE fulfilled("false")]))

\* mkdir
mkdir(r, mkdirOut) ==
  IF r.how = "throws" THEN throws(r.v)
  ELSE returns(
    then(then(promiseResolve(r),
              [realPath \in Values |-> fsCall("mkdir", realPath, mkdirOut)]),
         [x \in Values |-> fulfilled("true")]))

\* write() of writefile: the stream is opened, the data piped into it;
\* `dataOut` is the event the data stream ends with.
write(realPath, dataOut) ==
  [s |-> IF dataOut = "end" THEN "fulfilled" ELSE "rejected",
   v |-> IF dataOut = "end" THEN "true" ELSE "EIO",
   fs |-> <<[fn |-> "createWriteStream", path |-> realPath]>>]

\* writefile: the executor of new Promise; a throw in it rejects the promise.
\* realPath is what vfs.resolve returned, a promise included.
writefile(r, statOut, dataOut) ==
  IF r.how = "throws" THEN returns(rejected(r.v))
  ELSE returns(
    catch(then(IF r.how = "promise" THEN fsCallInvalid
               ELSE fsCall("stat", r.v, statOut),
               [st \in Values |-> IF st = "dir" THEN fulfilled("false")
                                  ELSE write(r.v, dataOut)]),
          [err \in Values |-> IF err = "ENOENT" THEN write(r.v, dataOut)
                              ELSE rejected(err)]))

\* rename and copy: Promise.resolve({realSource: vfs.resolve(src), realDest:
\* vfs.resolve(dest)}) keeps a promise vfs.resolve returns as it is.
twoPaths(fn, rs, rd, out) ==
  IF rs.how = "throws" THEN throws(rs.v)
  ELSE IF rd.how = "throws" THEN throws(rd.v)
  ELSE returns(
    then(IF rs.how = "promise" \/ rd.how = "promise" THEN fsCallInvalid
         ELSE fsCall(fn, rs.v, out),
         [x \in Values |-> fulfilled("true")]))

\* rename
rename(rs, rd, out) == twoPaths("rename", rs, rd, out)

\* copy
copy(rs, rd, out) == twoPaths("copy", rs, rd, out)

\* unlink
unlink(r, unlinkOut) ==
  IF r.how = "throws" THEN throws(r.v)
  ELSE returns(
    then(then(promiseResolve(r),
              [realPath \in Values |-> fsCall("unlink", realPath, unlinkOut)]),
         [x \in Values |-> fulfilled("true")]))

----------------------------------------------------------------------------
(* The state machine *)

\* An object mount() never returned (a hand-written descriptor): it has no id.
Foreign ==
  [ref |-> 0, id |-> 0, name |-> "home", root |-> "home:/", adapter |-> <<>>,
   attributes |-> NoAttributes]

\* close() invocations so far, over the first n handles.
RECURSIVE closeCalls(_, _)
closeCalls(hs, n) == IF n = 0 THEN 0 ELSE hs[n].closed + closeCalls(hs, n - 1)

\* The state a call leaves, and the record of the call.
Commit(r, op, args) ==
  /\ Len(r.objs) <= MaxMounts
  /\ Len(r.handles) <= MaxHandles
  /\ closeCalls(r.handles, Len(r.handles)) <= MaxClose
  /\ mountpoints' = r.mountpoints
  /\ adapters' = r.adapters
  /\ watches' = r.watches
  /\ methods' = r.methods
  /\ objs' = r.objs
  /\ handles' = r.handles
  /\ last' = [op |-> op, args |-> args, ret |-> r.ret, thrown |-> r.thrown,
              closed |-> r.closed, watched |-> r.watched,
              emitted |-> r.emitted, invoked |-> r.invoked,
              factories |-> r.factories, fs |-> r.fs]
  /\ UNCHANGED <<options, config>>

\* new Filesystem(core, options)
Init ==
  /\ options \in OptionChoices
  /\ config \in ConfigChoices
  /\ mountpoints = <<>>
  /\ adapters = <<>>
  /\ watches = <<>>
  /\ methods = {}
  /\ objs = <<>>
  /\ handles = <<>>
  /\ last = [op |-> "new", args |-> <<>>, ret |-> <<>>, thrown |-> FALSE,
             closed |-> <<>>, watched |-> <<>>, emitted |-> <<>>, invoked |-> <<>>,
             factories |-> <<>>, fs |-> <<>>]

\* The core boots the provider once.
Boot ==
  /\ methods = {}
  /\ Commit(init(This), "init", <<>>)

MountDescriptor ==
  \E d \in Descriptors : Commit(mount(This, d), "mount", <<d>>)

MountWatched ==
  \E d \in WatchedDescriptors : Commit(mount(This, d), "mount", <<d>>)

MountNamed ==
  \E d \in NamedDescriptors : Commit(mount(This, d), "mount", <<d>>)

\* mount() given a mountpoint object an earlier mount() built.
MountObject ==
  \E r \in 1..Len(objs) : Commit(mount(This, asDescriptor(objs[r])), "mount", <<asDescriptor(objs[r])>>)

Unmount ==
  \E r \in 0..Len(objs) :
    Commit(unmount(This, IF r = 0 THEN Foreign ELSE objs[r]), "unmount", <<r>>)

Watch ==
  \E r \in 1..Len(objs) : Commit(watch(This, objs[r]), "watch", <<r>>)

Destroy == Commit(destroy(This), "destroy", <<>>)

\* An adapter reports a change through the callback of a handle it has not
\* been asked to close.
Fire ==
  \E h \in 1..Len(handles), args \in FilterArgs, dir \in Dirs :
    /\ handles[h].closed = 0
    /\ Commit(onChange(This, objs[handles[h].mp], args, dir), "fire", <<h, args, dir>>)

Request ==
  \E name \in {"realpath", "bogus", "constructor"}, req \in Requests :
    Commit(request(This, name, req, "res"), "request", <<name, req>>)

Realpath ==
  \E filename \in Paths, user \in Users :
    Commit(realpath(This, filename, user), "realpath", <<filename, user>>)

\* Mountpoint and watch lifecycle.
Next ==
  \/ Boot
  \/ MountDescriptor
  \/ MountObject
  \/ Unmount
  \/ Watch
  \/ Destroy

Spec == Init /\ [][Next]_vars

\* Change notifications of the attached watches.
WatchNext ==
  \/ Boot
  \/ MountWatched
  \/ MountObject
  \/ Unmount
  \/ Fire

WatchSpec == Init /\ [][WatchNext]_vars

\* Request dispatch over a changing mountpoint list.
DispatchNext ==
  \/ Boot
  \/ MountNamed
  \/ Unmount
  \/ Request
  \/ Realpath

DispatchSpec == Init /\ [][DispatchNext]_vars

\* Startup under the configurations a deployment can have: a caller's own
\* 'system' factory, a factory that throws, several configured mountpoints.
StartupOptions ==
  OptionChoices \cup
  { [adapters |-> [n \in {"system", "watcher"} |-> watcherAdapter]],
    [adapters |-> [n \in {"watcher", "broken"} |->
                     IF n = "watcher" THEN watcherAdapter ELSE brokenFactory]] }

StartupConfigs ==
  ConfigChoices \cup
  { [vfsWatch |-> TRUE,
     mountpoints |-> <<descriptor("home", <<"watcher">>, <<Watchable>>),
                       descriptor("tmp", <<"watcher">>, <<Watchable>>)>>],
    [vfsWatch |-> TRUE,
     mountpoints |-> <<descriptor("tmp", <<>>, <<>>),
                       descriptor("home", <<>>, <<Watchable>>)>>],
    [vfsWatch |-> TRUE,
     mountpoints |-> <<descriptor("home", <<"ghost">>, <<Watchable>>),
                       descriptor("tmp", <<>>, <<>>)>>] }

StartupInit ==
  /\ options \in StartupOptions
  /\ config \in StartupConfigs
  /\ mountpoints = <<>>
  /\ adapters = <<>>
  /\ watches = <<>>
  /\ methods = {}
  /\ objs = <<>>
  /\ handles = <<>>
  /\ last = [op |-> "new", args |-> <<>>, ret |-> <<>>, thrown |-> FALSE,
             closed |-> <<>>, watched |-> <<>>, emitted |-> <<>>, invoked |-> <<>>,
             factories |-> <<>>, fs |-> <<>>]

StartupNext ==
  \/ Boot
  \/ MountNamed
  \/ MountObject
  \/ Unmount

StartupSpec == StartupInit /\ [][StartupNext]_vars

----------------------------------------------------------------------------
(* Calls of the system adapter: the inputs are what vfs.resolve and the    *)
(* backend filesystem do.                                                  *)

StatOutcomes == {"file", "dir", "ENOENT", "EACCES"}
CallOutcomes == {"ok", "EACCES"}
DataOutcomes == {"end", "error"}
Files == {"home:/notes.txt", "nomount:/x"}

\* The record of an adapter call; the Filesystem instance is not involved.
Settle(o, op, args) ==
  /\ last' = [op |-> op, args |-> args,
              ret |-> IF o.thrown THEN <<>> ELSE <<[s |-> o.s, v |-> o.v]>>,
              thrown |-> o.thrown, closed |-> <<>>, watched |-> <<>>,
              emitted |-> <<>>, invoked |-> <<>>, factories |-> <<>>, fs |-> o.fs]
  /\ UNCHANGED <<options, config, mountpoints, adapters, watches, methods, objs, handles>>

Exists ==
  \E file \in Files, r \in ResolveOutcomes, out \in {"ok", "ENOENT"} :
    Settle(exists(r, out), "exists", <<file, r, out>>)

Stat ==
  \E file \in Files, r \in ResolveOutcomes, out \in StatOutcomes :
    Settle(stat(r, out), "stat", <<file, r, out>>)

Readdir ==
  \E file \in Files, r \in ResolveOutcomes, out \in CallOutcomes, st \in {"file", "ENOENT"} :
    Settle(readdir(r, out, st), "readdir", <<file, r, out, st>>)

Readfile ==
  \E file \in Files, r \in ResolveOutcomes, out \in StatOutcomes :
    Settle(readfile(r, out), "readfile", <<file, r, out>>)

Mkdir ==
  \E file \in Files, r \in ResolveOutcomes, out \in CallOutcomes :
    Settle(mkdir(r, out), "mkdir", <<file, r, out>>)

Writefile ==
  \E file \in Files, r \in ResolveOutcomes, out \in StatOutcomes, data \in DataOutcomes :
    Settle(writefile(r, out, data), "writefile", <<file, r, out, data>>)

Rename ==
  \E rs \in ResolveOutcomes, rd \in ResolveOutcomes, out \in CallOutcomes :
    Settle(rename(rs, rd, out), "rename", <<rs, rd, out>>)

Copy ==
  \E rs \in ResolveOutcomes, rd \in ResolveOutcomes, out \in CallOutcomes :
    Settle(copy(rs, rd, out), "copy", <<rs, rd, out>>)

Unlink ==
  \E file \in Files, r \in ResolveOutcomes, out \in CallOutcomes :
    Settle(unlink(r, out), "unlink", <<file, r, out>>)

AdapterNext ==
  \/ Exists
  \/ Stat
  \/ Readdir
  \/ Readfile
  \/ Mkdir
  \/ Writefile
  \/ Rename
  \/ Copy
  \/ Unlink

AdapterSpec == Init /\ [][AdapterNext]_vars

----------------------------------------------------------------------------
(* Filesystem.mime.  A filename is the sequence of its path segments; the  *)
(* filenames table of core.config('mime') is a plain object; what the mime *)
(* library's getType yields for the filename is an input.                  *)

Filenames ==
  { <<"report.final.json">>, <<"docs", "report.final.json">>,
    <<"unknown.xyz123">>, <<"src", "Makefile">>, <<"notes.txt">>,
    <<"home", "constructor">>, <<>> }

\* core.config('mime').filenames: the own properties of the object.
FilenameTables ==
  { <<>>,
    [b \in {"report.final.json"} |-> "application/x-report"],
    [b \in {"report.final.json", "Makefile"} |->
       IF b = "Makefile" THEN "text/x-makefile" ELSE "application/x-report"],
    [b \in {"Makefile"} |-> ""] }

\* mime.getType(filename): a type, or null (<<>>) when no extension matches.
TypeOutcomes == {<<>>, <<"application/json">>, <<"text/plain">>}

\* path.basename(filename)
basename(filename) == IF filename = <<>> THEN "" ELSE filename[Len(filename)]

\* obj[key]: an own property, else an inherited one (a function), else
\* undefined.
property(obj, key) ==
  IF key \in DOMAIN obj THEN <<obj[key]>>
  ELSE IF key \in ObjectPrototype THEN <<"function " \o key>>
  ELSE <<>>

\* The value is truthy: neither undefined nor the empty string.
truthy(v) == v # <<>> /\ v # <<"">>

\* Filesystem.mime
mime(filename, filenames, typeOut) ==
  IF truthy(property(filenames, basename(filename)))
  THEN property(filenames, basename(filename))[1]
  ELSE IF truthy(typeOut) THEN typeOut[1] ELSE "application/octet-stream"

Mime ==
  \E filename \in Filenames, filenames \in FilenameTables, typeOut \in TypeOutcomes :
    /\ last' = [op |-> "mime", args |-> <<filename, filenames, typeOut>>,
                ret |-> <<mime(filename, filenames, typeOut)>>, thrown |-> FALSE,
                closed |-> <<>>, watched |-> <<>>, emitted |-> <<>>,
                invoked |-> <<>>, factories |-> <<>>, fs |-> <<>>]
    /\ UNCHANGED <<options, config, mountpoints, adapters, watches, methods, objs, handles>>

MimeNext == Mime

MimeSpec == Init /\ [][MimeNext]_vars

----------------------------------------------------------------------------
(* AuthServiceProvider.login.  A JavaScript value is a record tagged with  *)
(* its type; the session and the response are those of the request.        *)

undefinedValue == [t |-> "undefined"]
nullValue == [t |-> "null"]
booleanValue(b) == [t |-> "boolean", b |-> b]
objectValue(props) == [t |-> "object", props |-> props]

\* ToBoolean of the values above: what `if (result)` tests.
toBoolean(v) == v.t = "object" \/ (v.t = "boolean" /\ v.b)

\* const {username} = result: undefined (<<>>) unless result has the property.
usernameOf(v) ==
  IF v.t = "object" /\ "username" \in DOMAIN v.props THEN <<v.props.username>>
  ELSE <<>>

\* req.body of a login request: absent, empty, or the form's fields.
Bodies ==
  { undefinedValue, objectValue(<<>>),
    objectValue([username |-> "alice", password |-> "secret"]),
    objectValue([username |-> "bob"]) }

\* req.session before the call.
LoginSessions == [username : {<<>>, <<"alice">>, <<"bob">>}, cookie : {"sid"}]

LoginRequests == [body : Bodies, session : LoginSessions]

\* What this.adapter.login(req, res) settles with, for a caller's adapter.
LoginOutcomes ==
  { [rejects |-> FALSE, v |-> booleanValue(FALSE)],
    [rejects |-> FALSE, v |-> nullValue],
    [rejects |-> FALSE, v |-> booleanValue(TRUE)],
    [rejects |-> FALSE, v |-> objectValue([username |-> "alice"])],
    [rejects |-> FALSE, v |-> objectValue([username |-> "root", id |-> "0"])],
    [rejects |-> TRUE, v |-> undefinedValue] }

\* nullAdapter.login: Promise.resolve(req.body)
nullAdapterLogin(req) == [rejects |-> FALSE, v |-> req.body]

\* res.json(body), after res.status(code) when one is given
response(status, body) == [status |-> status, body |-> body]

\* login with the session assigned before the result is tested.
loginAssignFirst(out, req) ==
  IF out.rejects
  THEN [session |-> req.session, sent |-> <<>>, thrown |-> TRUE]
  ELSE LET username == usernameOf(out.v)
           assigned == [req.session EXCEPT !.username = username]
       IN  IF toBoolean(out.v)
           THEN [session |-> assigned,
                 sent |-> <<response(200, [user |-> [username |-> username]])>>,
                 thrown |-> FALSE]
           ELSE [session |-> assigned,
                 sent |-> <<response(403, [error |-> "Invalid login"])>>,
                 thrown |-> FALSE]

\* AuthServiceProvider.login, given what the adapter's login settled with.
login(out, req) ==
  IF out.rejects
  THEN [session |-> req.session, sent |-> <<>>, thrown |-> TRUE]
  ELSE IF toBoolean(out.v)
       THEN LET username == usernameOf(out.v)
            IN  [session |-> [req.session EXCEPT !.username = username],
                 sent |-> <<response(200, [user |-> [username |-> username]])>>,
                 thrown |-> FALSE]
       ELSE [session |-> req.session,
             sent |-> <<response(403, [error |-> "Invalid login"])>>,
             thrown |-> FALSE]

Login ==
  \E req \in LoginRequests, adapter \in {"null", "custom"} :
    \E out \in IF adapter = "null" THEN {nullAdapterLogin(req)} ELSE LoginOutcomes :
      LET r == login(out, req)
      IN  /\ last' = [op |-> "login", args |-> <<req, out, adapter>>,
                      ret |-> <<[session |-> r.session, sent |-> r.sent]>>,
                      thrown |-> r.thrown,
                      closed |-> <<>>, watched |-> <<>>, emitted |-> <<>>,
                      invoked |-> <<>>, factories |-> <<>>, fs |-> <<>>]
          /\ UNCHANGED <<options, config, mountpoints, adapters, watches, methods, objs, handles>>

AuthNext == Login

AuthSpec == Init /\ [][AuthNext]_vars

----------------------------------------------------------------------------
(* Properties *)

\* The references held by the mountpoint list.
mounted(ms) == {ms[i] : i \in 1..Len(ms)}

\* The number of times close() was invoked on handle h in the last call.
closedNow(l, h) == Cardinality({i \in 1..Len(l.closed) : l.closed[i] = h})

\* C1: over any sequence of mount, unmount and destroy calls close() is
\* invoked at most once on every watch handle, and once destroy() has
\* returned every handle with a close function has been closed exactly once.
C1_ClosedAtMostOnce ==
  /\ \A h \in 1..Len(handles) : handles[h].closed <= 1
  /\ (last.op = "destroy" /\ ~last.thrown) =>
       \A h \in 1..Len(handles) : handles[h].close => handles[h].closed = 1

\* C2: the ids of the currently mounted entries are pairwise distinct,
\* whatever descriptor was mounted (a mountpoint object mounted again
\* included).
C2_UniqueIds ==
  \A i, j \in 1..Len(mountpoints) :
    i # j => objs[mountpoints[i]].id # objs[mountpoints[j]].id

\* C3: unmount(x) returns true iff x was in the mountpoint list before the
\* call; after true x is gone and every other entry is still there, in order;
\* after false the list is unchanged; a miss is a false return, not an
\* exception.
C3_UnmountReturn ==
  [][last'.op = "unmount" =>
       LET x == last'.args[1]
       IN  /\ (last'.ret = <<TRUE>>) <=> (x \in mounted(mountpoints))
           /\ x \notin mounted(mountpoints) =>
                (last'.ret = <<FALSE>> /\ ~last'.thrown)
           /\ last'.ret = <<TRUE>> =>
                mountpoints' = SelectSeq(mountpoints, LAMBDA r : r # x)
           /\ last'.ret = <<FALSE>> => mountpoints' = mountpoints]_vars

\* The handles of the subscriptions whose handle has a close function, in
\* subscription order.
closableOf(ws, hs) ==
  LET sel == SelectSeq(ws, LAMBDA w : hs[w.watch].close)
  IN  [i \in 1..Len(sel) |-> sel[i].watch]

\* C4: destroy() invokes close() once on every recorded handle that has a
\* close function and empties the subscription list; a destroy() right
\* after a destroy() throws nothing, closes nothing and changes nothing.
C4_Destroy ==
  [][last'.op = "destroy" =>
       /\ ~last'.thrown
       /\ watches' = <<>>
       /\ last'.closed = closableOf(watches, handles)
       /\ \A h \in 1..Len(handles) :
            handles'[h] = [handles[h] EXCEPT !.closed = @ + closedNow(last', h)]
       /\ Len(handles') = Len(handles)
       /\ last.op = "destroy" =>
            /\ last'.closed = <<>>
            /\ <<mountpoints, adapters, watches, methods, objs, handles>>' =
                 <<mountpoints, adapters, watches, methods, objs, handles>>]_vars

C4_Witness ==
  /\ last.op = "destroy"
  /\ Len(last.closed) >= 1
  /\ \E h \in 1..Len(handles) : ~handles[h].close
  /\ watches = <<>>

\* The mountpoint a watch() or mount() call is about, after the call.
subject(l, os) == IF l.op = "watch" THEN os[l.args[1]] ELSE os[Len(os)]

\* The adapter bound to a mountpoint is registered and has no watch function.
boundWithoutWatch(mp, as) ==
  LET name == IF mp.adapter # <<>> THEN mp.adapter[1] ELSE "system"
  IN  name \in DOMAIN as /\ ~as[name].watch

\* watch() has to leave the mountpoint alone.
exempt(mp, as) ==
  \/ mp.attributes.watch = <<FALSE>>
  \/ config.vfsWatch = FALSE
  \/ mp.attributes.root = <<>>
  \/ boundWithoutWatch(mp, as)

\* C5: watch(m), and so mount(m), neither invokes the adapter's watch
\* function nor records a subscription nor throws when m.attributes.watch is
\* false, vfs.watch is false, m.attributes.root is absent or the bound
\* adapter has no watch function.
C5_WatchGate ==
  [][/\ last'.op \in {"watch", "mount"} /\ exempt(subject(last', objs'), adapters) =>
          /\ last'.watched = <<>>
          /\ watches' = watches
          /\ handles' = handles
          /\ ~last'.thrown
     /\ config.vfsWatch = FALSE => (last'.watched = <<>> /\ watches' = watches)]_vars

C5_Witness ==
  /\ last.op = "mount"
  /\ ~last.thrown
  /\ config.vfsWatch
  /\ objs[Len(objs)].attributes = Unwatched
  /\ objs[Len(objs)].adapter = <<"watcher">>
  /\ "watcher" \in DOMAIN adapters

\* C6: a watch that fires with (filterArgs, dir) emits exactly one broadcast,
\* with path "<mountpoint.name>:/<dir>" and the filterArgs, and a session
\* receives it iff each key of filterArgs is an attribute of the session with
\* exactly that value; with empty filterArgs every session receives it.
C6_Broadcast ==
  last.op = "fire" =>
    LET mp == objs[handles[last.args[1]].mp]
        args == last.args[2]
        dir == last.args[3]
    IN  /\ Len(last.emitted) = 1
        /\ last.emitted[1].name = "osjs/vfs:watch:change"
        /\ last.emitted[1].params = <<[path |-> mp.name \o ":/" \o dir], args>>
        /\ \A ws \in Sessions :
             ws \in last.emitted[1].to <=>
               \A k \in DOMAIN args : k \in DOMAIN ws /\ ws[k] = args[k]
        /\ args = <<>> => last.emitted[1].to = Sessions

C6_Witness ==
  /\ last.op = "fire"
  /\ last.args[2] = [user |-> "alice", group |-> "admin"]
  /\ last.emitted[1].to = {[user |-> "alice", group |-> "admin"]}
  /\ objs[handles[last.args[1]].mp].name = "tmp"

\* C7: the subscription list holds at most one entry per mountpoint id.
C7_OneSubscriptionPerId ==
  \A i, j \in 1..Len(watches) : i # j => watches[i].id # watches[j].id

\* C8: realpath(filename, user) invokes the realpath method, with the same
\* session.user and fields.path, as request('realpath', req, res) does for a
\* req with that user and that path, and both yield the same result in the
\* same mountpoint state.
C8_RealpathAsRequest ==
  last.op = "realpath" =>
    \A req \in Requests :
      (req.fields.path = last.args[1] /\ req.session.user = last.args[2]) =>
        LET q == request(This, "realpath", req, "res")
        IN  /\ q.thrown = last.thrown
            /\ q.ret = last.ret
            /\ Len(q.invoked) = Len(last.invoked)
            /\ \A i \in 1..Len(q.invoked) :
                 /\ q.invoked[i].method = last.invoked[i].method
                 /\ q.invoked[i].req.session.user = last.invoked[i].req.session.user
                 /\ q.invoked[i].req.fields.path = last.invoked[i].req.fields.path

C8_Witness ==
  /\ last.op = "realpath"
  /\ ~last.thrown
  /\ Len(last.invoked) = 1
  /\ last.args = <<[name |-> "home", rel |-> "notes.txt"], "bob">>
  /\ "mountpoint" \in DOMAIN last.ret[1]
  /\ Len(mountpoints) = 2

AdapterOps ==
  {"exists", "stat", "readdir", "readfile", "mkdir", "writefile", "rename",
   "copy", "unlink"}

\* Resolution of a virtual path failed in the last adapter call.
resolutionFailed(l) ==
  IF l.op \in {"rename", "copy"}
  THEN resolutionFails(l.args[1]) \/ resolutionFails(l.args[2])
  ELSE resolutionFails(l.args[2])

\* The call reported a failure: it threw, or its promise rejected.
reportsFailure(l) == l.thrown \/ l.ret[1].s = "rejected"

\* C9: when resolution of the virtual path fails, every system-adapter
\* operation reports a failure to its caller and makes no backend
\* filesystem call.
C9_ResolutionFailure ==
  (last.op \in AdapterOps /\ resolutionFailed(last)) =>
    (reportsFailure(last) /\ last.fs = <<>>)

\* C10: two mounted entries of the same name have distinct ids, and
\* unmounting one of them removes that entry alone, closes handles of that
\* entry alone and leaves the other entry and its handles as they were.
C10_SameNameIndependent ==
  [][/\ \A i, j \in 1..Len(mountpoints') :
          (i # j /\ objs'[mountpoints'[i]].name = objs'[mountpoints'[j]].name) =>
            objs'[mountpoints'[i]].id # objs'[mountpoints'[j]].id
     /\ \A x, y \in mounted(mountpoints) :
          (last'.op = "unmount" /\ last'.args[1] = x /\ y # x
             /\ objs[x].name = objs[y].name) =>
            /\ mountpoints' = SelectSeq(mountpoints, LAMBDA r : r # x)
            /\ \A i \in 1..Len(last'.closed) : handles[last'.closed[i]].mp = x
            /\ \A h \in 1..Len(handles) :
                 handles[h].mp = y => handles'[h] = handles[h]]_vars

\* The mountpoint objects init() created, as the descriptors they were built
\* from: name, adapter and attributes.
configured(os, from) ==
  [i \in 1..(Len(os) - from) |->
     [name |-> os[from + i].name, adapter |-> os[from + i].adapter,
      attributes |-> os[from + i].attributes]]

factoryCalls(l, n) ==
  Cardinality({i \in 1..Len(l.factories) : l.factories[i].name = n})

\* A factory threw in the call.
factoryThrew(l) ==
  \E i \in 1..Len(l.factories) : l.factories[i].out # "adapter"

\* C12: after init() the adapter map has exactly the keys {system} and the
\* configured names, each factory was called exactly once with the core,
\* 'system' is the built-in adapter unless the caller supplied a 'system'
\* factory, and then it is the caller's; if a factory throws, init() fails
\* with that error and no mountpoint has been mounted.
C12_AdapterMap ==
  [][last'.op = "init" =>
       LET names == {"system"} \cup DOMAIN options.adapters
       IN  /\ ~factoryThrew(last') =>
                /\ DOMAIN adapters' = names
                /\ \A n \in names : factoryCalls(last', n) = 1
                /\ \A i \in 1..Len(last'.factories) :
                     /\ last'.factories[i].name \in names
                     /\ last'.factories[i].arg = "core"
                     /\ last'.factories[i].by = "built-in" <=>
                          (last'.factories[i].name = "system"
                             /\ "system" \notin DOMAIN options.adapters)
                /\ \A n \in DOMAIN options.adapters : adapters'[n] = options.adapters[n]
                /\ "system" \notin DOMAIN options.adapters =>
                     adapters'["system"] = systemAdapter
           /\ (\E n \in DOMAIN options.adapters : "throws" \in DOMAIN options.adapters[n]) =>
                /\ last'.thrown
                /\ factoryThrew(last')
                /\ last'.factories[Len(last'.factories)].out \in
                     {options.adapters[n].throws :
                        n \in {m \in DOMAIN options.adapters :
                                 "throws" \in DOMAIN options.adapters[m]}}
                /\ \A n \in names : factoryCalls(last', n) <= 1
                /\ <<mountpoints, objs, watches, handles, adapters>>' =
                     <<mountpoints, objs, watches, handles, adapters>>
                /\ last'.watched = <<>>]_vars

\* init() has run with a caller's own 'system' factory.
C12_Witness ==
  /\ last.op = "init"
  /\ ~last.thrown
  /\ "system" \in DOMAIN options.adapters
  /\ adapters["system"] = watcherAdapter
  /\ Len(last.factories) = 2
  /\ Len(mountpoints) = 2

\* C13: mime(filename) returns the filenames-table entry for the basename of
\* filename whenever the table has one, whatever the extension-based lookup
\* yields; otherwise the extension-based type when there is one; otherwise
\* 'application/octet-stream'.
C13_Mime ==
  last.op = "mime" =>
    LET base == basename(last.args[1])
        table == last.args[2]
        byExtension == last.args[3]
    IN  last.ret = IF base \in DOMAIN table THEN <<table[base]>>
                   ELSE IF byExtension # <<>> THEN byExtension
                   ELSE <<"application/octet-stream">>

\* C14: exists(file) resolves to true when the resolved path is accessible
\* and to false when the access check fails.
C14_Exists ==
  (last.op = "exists" /\ ~resolutionFailed(last)) =>
    /\ ~last.thrown
    /\ last.fs = <<[fn |-> "access", path |-> last.args[2].v]>>
    /\ last.ret = <<[s |-> "fulfilled",
                     v |-> IF last.args[3] = "ok" THEN "true" ELSE "false"]>>

\* The call opened a write stream.
opensWriteStream(l) ==
  \E i \in 1..Len(l.fs) : l.fs[i].fn = "createWriteStream"

\* C15: writefile(file, data), for a path vfs.resolve returns, rejects when
\* the destination is an existing directory and opens no write stream on it;
\* when the destination does not exist (ENOENT) or is not a directory it
\* writes the data and resolves true; any other stat error rejects with that
\* error.
C15_Writefile ==
  (last.op = "writefile" /\ last.args[2].how = "returns") =>
    LET statOut == last.args[3]
        dataOut == last.args[4]
    IN  /\ ~last.thrown
        /\ statOut = "dir" =>
             (last.ret[1].s = "rejected" /\ ~opensWriteStream(last))
        /\ (statOut \in {"file", "ENOENT"} /\ dataOut = "end") =>
             (last.ret = <<[s |-> "fulfilled", v |-> "true"]>> /\ opensWriteStream(last))
        /\ statOut = "EACCES" =>
             (last.ret = <<[s |-> "rejected", v |-> "EACCES"]>> /\ ~opensWriteStream(last))

\* C16: request(name, req, res) with a name that is not in the method table
\* (any name before init() has built the table included) throws, invokes no
\* VFS method and leaves the mountpoint and subscription lists unchanged;
\* with a known name it invokes exactly that method, once, with the given
\* req and res.
C16_Request ==
  [][last'.op = "request" =>
       LET name == last'.args[1]
           req == last'.args[2]
       IN  IF name \in methods
           THEN /\ ~last'.thrown
                /\ last'.invoked = <<[method |-> name, req |-> req, res |-> <<"res">>]>>
           ELSE /\ last'.thrown
                /\ last'.invoked = <<>>
                /\ mountpoints' = mountpoints
                /\ watches' = watches]_vars

\* C17: mount is all-or-nothing: if mount(m) throws, the mountpoint list and
\* the subscription list are the same as before the call; if it returns,
\* the returned mountpoint is in the list.
C17_MountAllOrNothing ==
  [][last'.op = "mount" =>
       IF last'.thrown
       THEN mountpoints' = mountpoints /\ watches' = watches
       ELSE /\ Len(last'.ret) = 1
            /\ last'.ret[1] \in mounted(mountpoints')]_vars

\* C18: every entry of the subscription list has the id of a currently
\* mounted mountpoint and holds a handle that has not been closed.
C18_LiveSubscriptions ==
  \A i \in 1..Len(watches) :
    /\ \E r \in mounted(mountpoints) : objs[r].id = watches[i].id
    /\ handles[watches[i].watch].closed = 0

\* C19: an adapter firing no callback on a handle whose close() was invoked,
\* once unmount(m) has returned true no broadcast is emitted from the watch
\* attached for m: a watch that fires belongs to a mountpoint that is still
\* in the list.
C19_SilentAfterUnmount ==
  last.op = "fire" => handles[last.args[1]].mp \in mounted(mountpoints)

\* C20: in AuthServiceProvider.login req.session.username is assigned only
\* when the adapter's login result is truthy, and then exactly one success
\* response carrying that username is sent; when the result is falsy the
\* session is left unchanged and exactly one 403 'Invalid login' response is
\* sent.
C20_Login ==
  last.op = "login" =>
    LET req == last.args[1]
        out == last.args[2]
        after == last.ret[1].session
        sent == last.ret[1].sent
        isTruthy == ~out.rejects /\ out.v \notin {undefinedValue, nullValue, booleanValue(FALSE)}
        isFalsy == ~out.rejects /\ out.v \in {undefinedValue, nullValue, booleanValue(FALSE)}
    IN  /\ after # req.session => isTruthy
        /\ isTruthy =>
             /\ after.cookie = req.session.cookie
             /\ Len(sent) = 1
             /\ sent[1].status = 200
             /\ sent[1].body = [user |-> [username |-> after.username]]
             /\ after.username =
                  IF out.v.t = "object" /\ "username" \in DOMAIN out.v.props
                  THEN <<out.v.props.username>>
                  ELSE <<>>
        /\ isFalsy =>
             /\ after = req.session
             /\ sent = <<[status |-> 403, body |-> [error |-> "Invalid login"]]>>

C20_Witness ==
  /\ last.op = "login"
  /\ last.args[3] = "null"
  /\ last.args[1].session.username = <<"bob">>
  /\ last.ret[1].session.username = <<"alice">>
  /\ Len(last.ret[1].sent) = 1
  /\ last.ret[1].sent[1].status = 200
====
